---- MODULE Spec2Model ----
(***************************************************************************)
(* pycloudmusic/music163.py: the session manager LoginMusic163 (email,     *)
(* cellphone and QR login on top of the retrying transport call _login)    *)
(* and the API client Music163Api (my, music, playlist).                   *)
(*                                                                         *)
(* One LoginMusic163 object is shared by the login calls in Calls; the     *)
(* calls are asyncio tasks of one event loop, so a step runs from one      *)
(* suspension point (the network round trip of session.post, or            *)
(* asyncio.sleep) to the next.  `await _get_session()` hands back the      *)
(* process-wide session without I/O and is not a suspension point.         *)
(*                                                                         *)
(* Imported names the file relies on: the errors of pycloudmusic.error     *)
(* are subclasses of Exception; _post hands back the parsed body of an     *)
(* accepted answer; a Music object is not iterable and carries the song    *)
(* it was built from as music_data.                                        *)
(***************************************************************************)
EXTENDS Integers, Sequences, FiniteSets, TLC

VARIABLES
    cookie,     \* LoginMusic163.cookie
    hl,         \* LoginMusic163.__hl: the bytes fed to the md5 object so far
    clients,    \* the Music163Api objects created so far, in creation order
    call,       \* per login call: its frame (op, pc, data, reconnection_count) and its record
    api,        \* the API client operation in progress (my / playlist)
    playlist_data \* playlist(): the playlist payload being completed

vars == <<cookie, hl, clients, call, api, playlist_data>>

-----------------------------------------------------------------------------
(* Bounds of the model *)

\* from pycloudmusic import RECONNECTION: the value is set outside this file
RECONNECTION == 2
\* polls one qr() call may make before the model stops following it
MaxPolls == 2
\* a playlist holds at most MaxChunks full batches plus a remainder
MaxChunks == 2

\* login calls the host starts one after another in one call slot
MaxLogins == 2

\* the call slots of the one session manager: tasks of the host application
Calls == {"a", "b"}

-----------------------------------------------------------------------------
(* Optional[str] cookies *)

None == [some |-> FALSE, str |-> <<>>]
Str(s) == [some |-> TRUE, str |-> s]
\* `if self.cookie:` -- neither None nor ""
Truthy(c) == c.some /\ c.str # <<>>

\* a Morsel of req.cookies; str(item) is "Set-Cookie: key=value; Path=/; ..."
Morsel(v) == [key |-> "MUSIC_U", value |-> v, attrs |-> "Path=/"]
\* the cookies an answer to the n-th call of slot p may set: none, or a
\* session value the remote issues to that call alone
Jars(p, n) == {<<>>, <<Morsel(<<p, n>>)>>}

\* each item loses the "Set-Cookie: " prefix and everything after the first
\* "; ", and is joined as "key=value; " (the key starts with a character
\* outside the lstrip set).
_SimpleCookieToCookieStr(jar) ==
    Str([i \in 1..Len(jar) |-> <<jar[i].key, jar[i].value>>])

\* headers of one request: the basic headers plus "cookie" when self.cookie is truthy
Headers(c) == IF Truthy(c) THEN c ELSE None

-----------------------------------------------------------------------------
(* md5 *)

Passwords == {<<1>>, <<2>>}

\* hashlib's hexdigest: a function of all the bytes fed to the object since it
\* was created, represented by the term md5(bytes).
hexdigest(bytes) == <<"md5", bytes>>

\* self.__hl.update(str_.encode("utf-8"))
update(h, str_) == h \o str_

\* _md5: feeds the manager's one md5 object and reads its digest;
\* <<new state of __hl, returned digest>>
_md5(h, str_) == <<update(h, str_), hexdigest(update(h, str_))>>

-----------------------------------------------------------------------------
(* The remote *)

Accepted == {200, 803}
\* 800/801: QR ticket expired / waiting for the scan; 502: wrong password
Codes == {200, 803, 800, 801, 502}

\* What one session.post can end in: an exception before a body was parsed
\* (exc), or a JSON body with its code and the response's cookies.  Only an
\* accepted answer is followed by a read of req.cookies.
Answers(p, n) ==
    {[exc |-> TRUE, code |-> -1, cookies |-> <<>>]}
    \cup {[exc |-> FALSE, code |-> c, cookies |-> <<>>] : c \in Codes \ Accepted}
    \cup {[exc |-> FALSE, code |-> c, cookies |-> j] : c \in Accepted, j \in Jars(p, n)}

\* req.json(): the parsed body
Json(ans) == [code |-> ans.code]

-----------------------------------------------------------------------------
(* Exceptions *)

NoError == [type |-> "none", code |-> 0]
Error(t, c) == [type |-> t, code |-> c]

\* `Exception or not Music163BadCode` evaluates to its first operand, the
\* (truthy) class Exception
ExceptClause == "Exception"

\* isinstance(err, cls) for the exception types raised here, all subclasses of Exception
IsInstance(err, cls) == cls = "Exception" \/ err.type = cls

\* the guard one attempt too early
ExhaustedEarly(reconnection_count) == reconnection_count >= RECONNECTION

\* `if reconnection_count > RECONNECTION`
Exhausted(reconnection_count) == reconnection_count > RECONNECTION

\* One attempt of _login(url, data, reconnection_count) on answer ans, as far
\* as its return, its raise, or its recursive call:
\*   kind "return": value is the cookie string
\*   kind "raise":  err
\*   kind "call":   the arguments data, reconnection_count of the recursive call
_login(data, reconnection_count, ans) ==
    LET \* `data = await req.json(...)` rebinds the parameter once a body was parsed
        data1 == IF ans.exc THEN data ELSE Json(ans)
        err == IF ans.exc THEN Error("ClientError", 0)
               ELSE IF ~(data1.code \in Accepted) THEN Error("Music163BadCode", data1.code)
               ELSE NoError
    IN  IF err = NoError
        THEN [kind |-> "return", value |-> _SimpleCookieToCookieStr(ans.cookies),
              err |-> NoError, data |-> data1, reconnection_count |-> reconnection_count]
        ELSE IF IsInstance(err, ExceptClause)
        THEN IF Exhausted(reconnection_count + 1)
             THEN [kind |-> "raise", value |-> None, err |-> Error("CannotConnectApi", 0),
                   data |-> data1, reconnection_count |-> reconnection_count + 1]
             ELSE [kind |-> "call", value |-> None, err |-> NoError,
                   data |-> data1, reconnection_count |-> reconnection_count + 1]
        ELSE [kind |-> "raise", value |-> None, err |-> err,
              data |-> data1, reconnection_count |-> reconnection_count]

-----------------------------------------------------------------------------
(* Music163Api objects *)

\* Music163Api.__init__: the object holds the cookie it was given
Music163Api(ck) == [cookie |-> ck]

\* one client object kept by the manager and handed out again, its cookie
\* overwritten by each login
SharedClient(cs, ck) == [i \in 1..(Len(cs) + 1) |-> [cookie |-> ck]]

\* `Music163Api(cookie=self.cookie)` in a return statement: a new object next
\* to the ones handed out before
NewClient(cs, ck) == Append(cs, Music163Api(ck))

-----------------------------------------------------------------------------
(* Login calls *)

Emails == {"e@x"}
Phones == {"138"}
QrKeys == {"k"}
CaptchaCodes == {<<7>>}

NoForm == [none |-> TRUE]

\* A call slot before its first call.
\*   n: the calls started in this slot so far.
\*   The frame of the running call: op, pc, qr_key, and while a _login call
\*   is active its url, data, reconnection_count and headers (cleared when
\*   _login ends).
\*   The record of the call: password (the password argument of a password
\*   login), startCookie (self.cookie when the call started), path and form
\*   (the url and data the current _login call was given), nreq (requests sent by the current
\*   _login call), lastCode (code of its last answer; 0 none yet, -1 an
\*   exception), allWait (every answer of the call so far was 801 or 802),
\*   polls (qr_check calls made), issued (the cookies of the answer _login
\*   returned on), and the call's end: err raised, or (token, client) returned.
IdleCall ==
    [op |-> "idle", pc |-> "idle", n |-> 0, qr_key |-> "",
     url |-> "", data |-> NoForm, reconnection_count |-> 0, headers |-> None,
     password |-> <<>>, startCookie |-> None, path |-> "", form |-> NoForm, nreq |-> 0,
     lastCode |-> 0, allWait |-> TRUE, polls |-> 0,
     issued |-> <<>>, err |-> NoError, token |-> None, client |-> 0]

\* session.post(f"https://music.163.com{url}", headers=headers, data=data):
\* headers are built from the cookie the manager holds now
Post(c, url, data, reconnection_count, ck) ==
    [c EXCEPT !.pc = "wait", !.url = url, !.data = data,
              !.reconnection_count = reconnection_count,
              !.headers = Headers(ck), !.nreq = @ + 1]

\* self._login(url, data) called from email, cellphone or qr_check:
\* reconnection_count is 0 and the first request goes out
Enter(c, url, data, ck) ==
    Post([c EXCEPT !.path = url, !.form = data, !.nreq = 0, !.lastCode = 0],
         url, data, 0, ck)

\* the frame of _login is gone once it returned or raised
Leave(c) ==
    [c EXCEPT !.url = "", !.data = NoForm, !.reconnection_count = 0, !.headers = None]

\* email(email, password) up to its first suspension
email(p, e, password) ==
    /\ call[p].pc = "idle"
    /\ call[p].n < MaxLogins
    /\ LET h == _md5(hl, password)
           data == [username |-> e, password |-> h[2], rememberLogin |-> "true"]
       IN  /\ hl' = h[1]
           /\ call' = [call EXCEPT ![p] =
                  Enter([@ EXCEPT !.n = @ + 1, !.op = "email", !.startCookie = cookie,
                                  !.password = password],
                        "/api/login", data, cookie)]
    /\ UNCHANGED <<cookie, clients, api, playlist_data>>

\* cellphone(phone, password, captcha) up to its first suspension
cellphone(p, phone, password, captcha) ==
    /\ call[p].pc = "idle"
    /\ call[p].n < MaxLogins
    /\ LET h == _md5(hl, password)
           data == IF captcha
                   THEN [phone |-> phone, countrycode |-> "86", captcha |-> password,
                         rememberLogin |-> "true"]
                   ELSE [phone |-> phone, countrycode |-> "86", password |-> h[2],
                         rememberLogin |-> "true"]
       IN  /\ hl' = IF captcha THEN hl ELSE h[1]
           /\ call' = [call EXCEPT ![p] =
                  Enter([@ EXCEPT !.n = @ + 1,
                                  !.op = IF captcha THEN "captcha" ELSE "cellphone",
                                  !.startCookie = cookie,
                                  !.password = IF captcha THEN <<>> ELSE password],
                        "/api/login/cellphone", data, cookie)]
    /\ UNCHANGED <<cookie, clients, api, playlist_data>>

\* qr_check(qr_key): the form data of one poll
qr_check(qr_key) == [key |-> qr_key, type |-> 1]

\* qr(qr_key) up to its first suspension: the first poll
qr(p, qr_key) ==
    /\ call[p].pc = "idle"
    /\ call[p].n < MaxLogins
    /\ call' = [call EXCEPT ![p] =
           Enter([@ EXCEPT !.n = @ + 1, !.op = "qr", !.startCookie = cookie, !.qr_key = qr_key,
                           !.polls = 1],
                 "/api/login/qrcode/client/login", qr_check(qr_key), cookie)]
    /\ UNCHANGED <<cookie, hl, clients, api, playlist_data>>

\* What email / cellphone do with the end of `await self._login(...)`:
\* the value is stored in self.cookie and returned with a new client; an
\* exception propagates.  next: "return" | "raise".
emailAfter(r, ck) ==
    IF r.kind = "return"
    THEN [next |-> "return", cookie |-> r.value, err |-> NoError]
    ELSE [next |-> "raise", cookie |-> ck, err |-> r.err]

\* What one pass of qr's loop does with the end of `await self.qr_check(...)`.
\* next: "return" | "raise" | "sleep".
qrAfter(r, ck) ==
    IF r.kind = "return"
    THEN IF Truthy(r.value)
         THEN [next |-> "return", cookie |-> r.value, err |-> NoError]
         ELSE [next |-> "sleep", cookie |-> r.value, err |-> NoError]
    ELSE IF IsInstance(r.err, "Music163BadCode")
    THEN IF r.err.code \in {801, 802}
         THEN [next |-> "sleep", cookie |-> ck, err |-> NoError]
         ELSE IF r.err.code = 800
         THEN [next |-> "return", cookie |-> ck, err |-> NoError]
         ELSE [next |-> "sleep", cookie |-> ck, err |-> NoError]
    ELSE [next |-> "raise", cookie |-> ck, err |-> r.err]

\* The answer to the request in flight arrives: the rest of this attempt of
\* _login and, when _login ends, the caller's code up to its next suspension
\* or its end.
Receive(p, ans) ==
    /\ call[p].pc = "wait"
    /\ LET c == [call[p] EXCEPT !.lastCode = ans.code,
                                !.allWait = @ /\ ans.code \in {801, 802}]
           r == _login(c.data, c.reconnection_count, ans)
           k == IF c.op = "qr" THEN qrAfter(r, cookie) ELSE emailAfter(r, cookie)
       IN  IF r.kind = "call"
           THEN /\ call' = [call EXCEPT ![p] =
                       Post(c, c.url, r.data, r.reconnection_count, cookie)]
                /\ UNCHANGED <<cookie, clients>>
           ELSE /\ cookie' = k.cookie
                /\ clients' = IF k.next = "return" THEN NewClient(clients, k.cookie)
                              ELSE clients
                /\ call' = [call EXCEPT ![p] =
                       [Leave(c) EXCEPT
                           !.pc = IF k.next = "sleep" THEN "sleep" ELSE "done",
                           !.issued = IF r.kind = "return" THEN ans.cookies ELSE @,
                           !.err = k.err,
                           !.token = IF k.next = "return" THEN k.cookie ELSE @,
                           !.client = IF k.next = "return" THEN Len(clients') ELSE @]]
    /\ UNCHANGED <<hl, api, playlist_data>>

\* asyncio.sleep(time_sleep) is over: the next pass of qr's loop, a new qr_check
Wake(p) ==
    /\ call[p].pc = "sleep"
    /\ call[p].polls < MaxPolls
    /\ call' = [call EXCEPT ![p] =
           Enter([@ EXCEPT !.polls = @ + 1],
                 "/api/login/qrcode/client/login", qr_check(@.qr_key), cookie)]
    /\ UNCHANGED <<cookie, hl, clients, api, playlist_data>>

\* The host is done with a finished call and may start the next in its slot
Again(p) ==
    /\ call[p].pc = "done"
    /\ call' = [call EXCEPT ![p] = [IdleCall EXCEPT !.n = call[p].n]]
    /\ UNCHANGED <<cookie, hl, clients, api, playlist_data>>

\* login_status / login_refresh / logout: _post with cookie=self.cookie, the
\* body handed back; nothing of the manager or of a client is assigned
login_refresh == UNCHANGED vars

-----------------------------------------------------------------------------
(* Music163Api operations *)

\* page size of the playlist endpoints
PageSize == 1000

Min(a, b) == IF a < b THEN a ELSE b

\* Python's seq[lo:hi] (0-based, hi exclusive, clipped to the length)
Slice(seq, lo, hi) == SubSeq(seq, lo + 1, Min(hi, Len(seq)))

NoObject == [type |-> "none", cookie |-> None]
NoPlaylist == [trackIds |-> <<>>, tracks |-> <<>>]

\* The one API operation the host has in progress.
\*   Frame: op, pc, client (the Music163Api object it runs on), for my() its
\*   local data, and for playlist() its locals trackIds and i.
\*   Record: asked (the ids sent to song-detail so far, in order), nmusic
\*   (song-detail calls made), maxBatch (the most ids in one such call), and
\*   the end: err raised or ret returned.
NoApi ==
    [pc |-> "idle", op |-> "", client |-> 0, data |-> NoForm, trackIds |-> <<>>, i |-> 0,
     asked |-> <<>>, nmusic |-> 0, maxBatch |-> 0, err |-> NoError, ret |-> NoObject]

ApiFree == api.pc \in {"idle", "done"}

\* --- my ---

JsonNull == "null"
\* accepted bodies of /api/w/nuser/account/get: a profile, a null profile, no profile field
MyBodies ==
    {[code |-> 200, profile |-> "user"], [code |-> 200, profile |-> JsonNull],
     [code |-> 200]}

\* my() after `data = await _post(...)`
my_(data, ck) ==
    IF ~("profile" \in DOMAIN data)
    THEN [err |-> Error("KeyError", 0), ret |-> NoObject]
    ELSE IF data.profile = JsonNull
    THEN [err |-> Error("Music163BadData", 0), ret |-> NoObject]
    ELSE [err |-> NoError, ret |-> [type |-> "My", cookie |-> ck]]

\* my() up to the suspension in _post
my(c) ==
    /\ ApiFree
    /\ api' = [NoApi EXCEPT !.pc = "my", !.op = "my", !.client = c]
    /\ playlist_data' = NoPlaylist
    /\ UNCHANGED <<cookie, hl, clients, call>>

myReturn(data) ==
    /\ api.pc = "my"
    /\ LET r == my_(data, clients[api.client].cookie)
       IN  api' = [api EXCEPT !.pc = "done", !.data = data, !.err = r.err, !.ret = r.ret]
    /\ UNCHANGED <<cookie, hl, clients, call, playlist_data>>

\* --- music ---

\* the song-detail body for the ids asked: one song per id, in the order asked
Songs(ids) == ids

\* music(ids) after `data = await _post(...)`: one Music object when the body
\* holds exactly one song, else a generator of Music objects
music_(songs, ck) ==
    IF Len(songs) = 1
    THEN [type |-> "Music", cookie |-> ck, music_data |-> songs[1], items |-> <<>>]
    ELSE [type |-> "generator", cookie |-> ck, music_data |-> 0, items |-> songs]

\* list(x): the items of a generator; a Music object is not iterable
ListOf(x) ==
    IF x.type = "generator"
    THEN [err |-> NoError, items |-> x.items]
    ELSE [err |-> Error("TypeError", 0), items |-> <<>>]

MusicAsks == {<<7>>, <<7, 8>>}

\* music(ids) up to the suspension in _post
music(c, ids) ==
    /\ ApiFree
    /\ api' = [NoApi EXCEPT !.pc = "music", !.op = "music", !.client = c,
                            !.asked = ids, !.nmusic = 1, !.maxBatch = Len(ids)]
    /\ playlist_data' = NoPlaylist
    /\ UNCHANGED <<cookie, hl, clients, call>>

musicReturn ==
    /\ api.pc = "music"
    /\ api' = [api EXCEPT !.pc = "done",
                          !.ret = music_(Songs(api.asked), clients[api.client].cookie)]
    /\ UNCHANGED <<cookie, hl, clients, call, playlist_data>>

\* --- playlist ---

\* the track ids of a playlist of n tracks, in playlist order
TrackIds(n) == [k \in 1..n |-> 5000 - k]

PlaylistSizes == {k * PageSize + d : k \in 0..MaxChunks, d \in {0, 1, 2, 500, 999}}

\* playlist(id_) up to the suspension in _post of /api/v6/playlist/detail
playlist(c) ==
    /\ ApiFree
    /\ api' = [NoApi EXCEPT !.pc = "detail", !.op = "playlist", !.client = c]
    /\ playlist_data' = NoPlaylist
    /\ UNCHANGED <<cookie, hl, clients, call>>

\* one pass of the loop `for i in range(0, len(trackIds), 1000)` up to the
\* suspension in music(): the ids trackIds[i: i + 1000] are asked for
AskBatch(a, i) ==
    LET ids == Slice(a.trackIds, i, i + PageSize)
    IN  [a EXCEPT !.pc = "songs", !.i = i, !.asked = @ \o ids, !.nmusic = @ + 1,
                  !.maxBatch = IF Len(ids) > @ THEN Len(ids) ELSE @]

\* return PlayList(playlist_data, cookie=self.cookie)
ReturnPlayList(a) ==
    [a EXCEPT !.pc = "done",
              !.ret = [type |-> "PlayList", cookie |-> clients[a.client].cookie]]

\* the playlist detail of a playlist of n tracks arrives: all n track ids,
\* and the first min(n, 1000) tracks
playlistDetail(n) ==
    /\ api.pc = "detail"
    /\ LET all == TrackIds(n)
           trackIds == Slice(all, PageSize, n)
           a == [api EXCEPT !.trackIds = trackIds]
       IN  /\ playlist_data' = [trackIds |-> all, tracks |-> Slice(all, 0, PageSize)]
           /\ api' = IF trackIds = <<>> THEN ReturnPlayList(a) ELSE AskBatch(a, 0)
    /\ UNCHANGED <<cookie, hl, clients, call>>

\* the song detail of the batch asked arrives: the rest of this pass of the
\* loop, and the next pass or the return
playlistSongs ==
    /\ api.pc = "songs"
    /\ LET ids == Slice(api.trackIds, api.i, api.i + PageSize)
           music_list == ListOf(music_(Songs(ids), clients[api.client].cookie))
           i == api.i + PageSize
       IN  IF music_list.err # NoError
           THEN /\ api' = [api EXCEPT !.pc = "done", !.err = music_list.err]
                /\ UNCHANGED playlist_data
           ELSE /\ playlist_data' = [playlist_data EXCEPT !.tracks = @ \o music_list.items]
                /\ api' = IF i < Len(api.trackIds) THEN AskBatch(api, i)
                          ELSE ReturnPlayList(api)
    /\ UNCHANGED <<cookie, hl, clients, call>>

-----------------------------------------------------------------------------
(* Specifications *)

\* LoginMusic163(): no cookie, a new md5 object, no call started
InitLogin ==
    /\ cookie = None
    /\ hl = <<>>
    /\ call = [p \in Calls |-> IdleCall]
    /\ api = NoApi
    /\ playlist_data = NoPlaylist

Init == InitLogin /\ clients = <<>>

Start(p) ==
    \/ \E e \in Emails, pw \in Passwords : email(p, e, pw)
    \/ \E ph \in Phones, pw \in Passwords : cellphone(p, ph, pw, FALSE)
    \/ \E ph \in Phones, cc \in CaptchaCodes : cellphone(p, ph, cc, TRUE)
    \/ \E k \in QrKeys : qr(p, k)

Progress(p) ==
    \/ \E ans \in Answers(p, call[p].n) : Receive(p, ans)
    \/ Wake(p)

\* One session manager whose login calls the host makes one after another,
\* and the clients those calls returned, used for my().
Next ==
    \/ Start("a")
    \/ Progress("a")
    \/ Again("a")
    \/ login_refresh
    \/ \E c \in DOMAIN clients : my(c)
    \/ \E data \in MyBodies : myReturn(data)

Spec == Init /\ [][Next]_vars

\* One session manager with the login calls of two tasks of the host in flight
\* at once.
NextConc == \E p \in Calls : Start(p) \/ Progress(p)

SpecConc == Init /\ [][NextConc]_vars

\* Music163Api objects the host made itself, and their operations.
HostCookies == {None, Str(<<>>), Str(<< <<"MUSIC_U", <<"host", 0>>>> >>)}

InitApi == InitLogin /\ \E ck \in HostCookies : clients = <<Music163Api(ck)>>

NextApi ==
    \/ \E c \in DOMAIN clients : my(c)
    \/ \E data \in MyBodies : myReturn(data)
    \/ \E c \in DOMAIN clients, ids \in MusicAsks : music(c, ids)
    \/ musicReturn
    \/ \E c \in DOMAIN clients : playlist(c)
    \/ \E n \in PlaylistSizes : playlistDetail(n)
    \/ playlistSongs

SpecApi == InitApi /\ [][NextApi]_vars

-----------------------------------------------------------------------------
(* Properties *)

CannotConnectApi == Error("CannotConnectApi", 0)
PasswordLogins == {"email", "cellphone"}
Logins == {"email", "cellphone", "captcha"}
Rejections == Codes \ Accepted

\* C1: a business rejection code answering an email or phone login ends the
\* call after that one request with Music163BadCode carrying the code.
C1_RejectionRaisedAtOnce ==
    \A p \in Calls :
        (call[p].op \in Logins /\ call[p].lastCode \in Rejections)
        => /\ call[p].pc = "done"
           /\ call[p].nreq = 1
           /\ call[p].err = Error("Music163BadCode", call[p].lastCode)

\* C2: while every answer to a qr() call has been 801 or 802, the call has not
\* failed, however many such answers there were; and on the 803 answer that
\* carries a token the call returns that token with a client built from it.
C2_QrOutlastsWaiting ==
    \A p \in Calls :
        call[p].op = "qr"
        => /\ call[p].allWait => call[p].err = NoError
           /\ (call[p].lastCode = 803 /\ call[p].issued # <<>>)
              => /\ call[p].pc = "done"
                 /\ call[p].token = _SimpleCookieToCookieStr(call[p].issued)
                 /\ clients[call[p].client].cookie = call[p].token

\* C3: an 800 answer to a poll of qr() ends the call: it has returned, without
\* an exception, self.cookie and a client built from it; no request follows.
C3_ExpiredTicketReturns ==
    \A p \in Calls :
        (call[p].op = "qr" /\ call[p].lastCode = 800)
        => /\ call[p].pc = "done"
           /\ call[p].err = NoError
           /\ call[p].client \in DOMAIN clients
           /\ clients[call[p].client].cookie = call[p].token

Md5Of(str_) == hexdigest(update(<<>>, str_))

\* C5: the password field a password login transmits is the digest of that
\* call's password alone.
C5_DigestOfOwnPassword ==
    \A p \in Calls :
        call[p].op \in PasswordLogins
        => call[p].form.password = Md5Of(call[p].password)

\* ceil(a / b)
CeilDiv(a, b) == (a + b - 1) \div b

\* C6: playlist() on a playlist of N track ids ends by returning a PlayList
\* whose tracks are the N ids in playlist order, after no song-detail call when
\* N <= 1000 and else ceil((N - 1000) / 1000) calls of at most 1000 ids each
\* that asked for the ids 1000..N-1 in order.
C6_PlaylistComplete ==
    (api.op = "playlist" /\ api.pc = "done")
    => LET N == Len(playlist_data.trackIds)
       IN  /\ api.err = NoError
           /\ api.ret.type = "PlayList"
           /\ api.nmusic = IF N <= PageSize THEN 0 ELSE CeilDiv(N - PageSize, PageSize)
           /\ api.maxBatch <= PageSize
           /\ api.asked = Slice(playlist_data.trackIds, PageSize, N)
           /\ playlist_data.tracks = playlist_data.trackIds

\* C7: a step never changes a client that exists, and a login call that
\* returns hands out a client made in that step, holding the token returned.
C7_ClientTokenFixed ==
    [][/\ \A i \in DOMAIN clients :
              i \in DOMAIN clients' /\ clients'[i].cookie = clients[i].cookie
       /\ \A p \in Calls :
              (call[p].pc # "done" /\ call'[p].pc = "done" /\ call'[p].err = NoError)
              => /\ call'[p].client = Len(clients) + 1
                 /\ Len(clients') = Len(clients) + 1
                 /\ clients'[call'[p].client].cookie = call'[p].token]_vars

\* C7 witness: the first client was used for my(), and a later login has
\* returned a second client with another token
C7_TwoHandles ==
    /\ Len(clients) = 2
    /\ Truthy(clients[1].cookie)
    /\ Truthy(clients[2].cookie)
    /\ clients[1].cookie # clients[2].cookie
    /\ call["a"].pc = "done" /\ call["a"].client = 2
    /\ api.pc = "done" /\ api.client = 1 /\ api.ret.cookie = clients[1].cookie

\* C8: the request in flight of a call carries the cookie the manager held
\* when the call started, and a call that returned hands out the token of the
\* answer to its own request, with a client holding that token.
C8_CallsIsolated ==
    \A p \in Calls :
        /\ call[p].pc = "wait" => call[p].headers = Headers(call[p].startCookie)
        /\ (call[p].pc = "done" /\ call[p].err = NoError)
           => /\ call[p].token = _SimpleCookieToCookieStr(call[p].issued)
              /\ clients[call[p].client].cookie = call[p].token

HasProfile(data) == "profile" \in DOMAIN data /\ data.profile # JsonNull

\* C9: my() ends with Music163BadData when the body carries no profile (null
\* or absent), and else returns a My object built with the client's cookie.
C9_NoProfileIsBadData ==
    (api.op = "my" /\ api.pc = "done")
    => IF HasProfile(api.data)
       THEN /\ api.err = NoError
            /\ api.ret = [type |-> "My", cookie |-> clients[api.client].cookie]
       ELSE api.err = Error("Music163BadData", 0)

\* C10: the request in flight of a _login call carries the url and the form
\* data the call was given.
C10_RetrySendsSameForm ==
    \A p \in Calls :
        call[p].pc = "wait"
        => /\ call[p].url = call[p].path
           /\ call[p].data = call[p].form

====
